---- MODULE Spec2Model ----
(***************************************************************************)
(* Model of octograph: app/octopus_to_influxdb.py and                      *)
(* app/agileexportonly.py.                                                 *)
(*                                                                         *)
(*   SpecPag    retrieve_paginated_data against a paginated source         *)
(*   SpecEnrich store_series on one consumption record: band resolution    *)
(*              (active_rate_field), fields_for_measurement, the writes    *)
(*   SpecAgile  agileexportonly.store_agilerates (batched writes)          *)
(*   Spec       octopus_to_influxdb.cmd: fetch, enrich, write, per series  *)
(***************************************************************************)
EXTENDS Integers, Sequences, FiniteSets, TLC

VARIABLES
    source,     \* the paginated data source: page token -> response
    page,       \* retrieve_paginated_data: the `page` argument of the active call
    frames,     \* `results` of the suspended (outer) recursive calls, outermost first
    requested,  \* the page tokens requested so far, in order
    returned,   \* <<v>> once the outermost call has returned v, else <<>>
    pstate,     \* "idle", "calling", "returned" or "raised"
    series,     \* store_series: the `series` argument, "electricity" or "gas"
    rate_data,  \* store_series: the `rate_data` argument
    metrics,    \* store_series: the `metrics` argument, consumption records
    measurements, \* store_series: the enriched `measurements` list
    enrichStep, \* store_series: "idle", "enrich", "write", "done" or "raised"
    widx,       \* store_series: index of the measurement of the write loop
    fidx,       \* store_series: index of the field of the inner write loop
    writes,     \* every point written by store_series, in order, each with
                \* the measurement it was made of
    agile_data, \* store_agilerates: the `agile_data` argument
    idx,        \* store_agilerates: index of the next rate of the for loop
    points,     \* store_agilerates: the pending batch
    calls,      \* the `record` argument of every write call made, in order
    apc,        \* store_agilerates: "idle", "loop", "done" or "raised"
    pc,         \* cmd: the statement it is at
    status,     \* cmd: "idle", "running", "done" or "aborted"
    no_gas,     \* cmd: the --no-gas option
    e_consumption,    \* cmd: the electricity readings fetched
    agile_unit_rates, \* cmd: rate_data['electricity']['agile_unit_rates']
    g_consumption     \* cmd: the gas readings fetched

pagVars == <<source, page, frames, requested, returned, pstate>>
enrichVars == <<series, rate_data, metrics, measurements, enrichStep, widx, fidx, writes>>
agileVars == <<agile_data, idx, points, calls, apc>>
cmdVars == <<pc, status, no_gas, e_consumption, agile_unit_rates, g_consumption>>
vars == <<pagVars, enrichVars, agileVars, cmdVars>>

\* Python's None / JSON null where a page token is expected (tokens are 1..)
None == 0

(***************************************************************************)
(* Bounds of the model.                                                    *)
(***************************************************************************)
MaxPages == 3   \* page tokens the source knows: 1..MaxPages
MaxRecs == 2    \* records per page: 0..MaxRecs
MaxDays == 2    \* local days the resolved instants are drawn from: 1..MaxDays
MaxAgile == 2   \* entries of the dynamic price series: 0..MaxAgile
MaxRates == 100 \* rates handed to store_agilerates: 0..MaxRates
RunPages == 2   \* page tokens of the sources a run of cmd fetches from

(***************************************************************************)
(* The data source (spec section 6): a JSON body with `results` and `next`.*)
(* A response is one of                                                    *)
(*   ok          status 200, body has `results` and `next`                 *)
(*   no_results  status 200, body has `next` but no `results` key          *)
(*   no_next     status 200, body has `results` but no `next` key          *)
(*   http_error  non-success status                                        *)
(*   not_json    status 200, body is not JSON                              *)
(*   bad_next    status 200, `next` is a URL without a `page` parameter    *)
(* `next` is None (null) or the token carried by the `page` parameter of   *)
(* the next URL.  The request without a `page` argument is answered with   *)
(* page 1.  Records are identified by <<page, index>>.                     *)
(***************************************************************************)
Records(p, n) == [i \in 1..n |-> <<p, i>>]

NextChoices(p, np) == {None} \cup ((p + 1)..np)

Responses(p, np, nr) ==
    {[kind |-> "ok", results |-> Records(p, n), next |-> nx] :
        n \in 0..nr, nx \in NextChoices(p, np)}
    \cup {[kind |-> "no_results", results |-> <<>>, next |-> nx] :
        nx \in NextChoices(p, np)}
    \cup {[kind |-> k, results |-> Records(p, n), next |-> None] :
        k \in {"no_next", "bad_next"}, n \in 0..nr}
    \cup {[kind |-> k, results |-> <<>>, next |-> None] :
        k \in {"http_error", "not_json"}}

\* the sources of pages p..np, as sequences of their responses
RECURSIVE SourcesFrom(_, _, _)
SourcesFrom(p, np, nr) ==
    IF p > np THEN {<<>>}
    ELSE {<<r>> \o s : r \in Responses(p, np, nr), s \in SourcesFrom(p + 1, np, nr)}

Sources(np, nr) == SourcesFrom(1, np, nr)

(***************************************************************************)
(* retrieve_paginated_data                                                 *)
(***************************************************************************)
\* `if page: args['page'] = page`: without the argument the source serves page 1
PageServed(pg) == IF pg = None THEN 1 ELSE pg

\* variant: `next` read with data.get('next'), a missing key ends the chain
RaisesLenient(resp) == resp.kind \in {"http_error", "not_json", "bad_next"}

\* response.raise_for_status(), response.json(), data['next'] and
\* parse_qs(url_query)['page'] raise HTTPError, ValueError, KeyError, KeyError
Raises(resp) == resp.kind \in {"http_error", "not_json", "no_next", "bad_next"}

\* data.get('results', [])
ResultsOf(resp) == IF resp.kind = "no_results" THEN <<>> ELSE resp.results

\* variant: the later pages put before the earlier ones
RECURSIVE UnwindReversed(_, _)
UnwindReversed(fs, inner) ==
    IF fs = <<>> THEN inner
    ELSE UnwindReversed(SubSeq(fs, 1, Len(fs) - 1), inner \o fs[Len(fs)])

\* `results += retrieve_paginated_data(...)` in every suspended call, innermost first
RECURSIVE Unwind(_, _)
Unwind(fs, inner) ==
    IF fs = <<>> THEN inner
    ELSE Unwind(SubSeq(fs, 1, Len(fs) - 1), fs[Len(fs)] \o inner)

\* the request raises: the exception leaves every suspended call
RequestRaises ==
    /\ pstate = "calling"
    /\ Raises(source[PageServed(page)])
    /\ requested' = Append(requested, PageServed(page))
    /\ frames' = <<>>
    /\ returned' = <<>>
    /\ pstate' = "raised"
    /\ UNCHANGED <<source, page>>

\* data['next'] is set: recurse with the page token of the next URL
RequestMore ==
    /\ pstate = "calling"
    /\ LET resp == source[PageServed(page)] IN
        /\ ~Raises(resp)
        /\ resp.next # None
        /\ requested' = Append(requested, PageServed(page))
        /\ frames' = Append(frames, ResultsOf(resp))
        /\ page' = resp.next
    /\ UNCHANGED <<source, returned, pstate>>

\* data['next'] is null: return, and every suspended call appends and returns
RequestLast ==
    /\ pstate = "calling"
    /\ LET resp == source[PageServed(page)] IN
        /\ ~Raises(resp)
        /\ resp.next = None
        /\ requested' = Append(requested, PageServed(page))
        /\ returned' = <<Unwind(frames, ResultsOf(resp))>>
    /\ frames' = <<>>
    /\ pstate' = "returned"
    /\ UNCHANGED <<source, page>>

\* the enrichment is not in use
EnrichIdle ==
    /\ series = ""
    /\ rate_data = <<>>
    /\ metrics = <<>>
    /\ measurements = <<>>
    /\ enrichStep = "idle"
    /\ widx = 0
    /\ fidx = 0
    /\ writes = <<>>

\* cmd is not in use
CmdIdle ==
    /\ pc = ""
    /\ status = "idle"
    /\ no_gas = TRUE
    /\ e_consumption = <<>>
    /\ agile_unit_rates = <<>>
    /\ g_consumption = <<>>

\* store_agilerates is not in use
AgileIdle ==
    /\ agile_data = <<>>
    /\ idx = 0
    /\ points = <<>>
    /\ calls = <<>>
    /\ apc = "idle"

InitPag ==
    /\ EnrichIdle
    /\ AgileIdle
    /\ CmdIdle
    /\ source \in Sources(MaxPages, MaxRecs)
    /\ page = None
    /\ frames = <<>>
    /\ requested = <<>>
    /\ returned = <<>>
    /\ pstate = "calling"

NextPag ==
    \/ RequestRaises /\ UNCHANGED <<enrichVars, agileVars, cmdVars>>
    \/ RequestMore /\ UNCHANGED <<enrichVars, agileVars, cmdVars>>
    \/ RequestLast /\ UNCHANGED <<enrichVars, agileVars, cmdVars>>

SpecPag == InitPag /\ [][NextPag]_vars

(***************************************************************************)
(* Claims about retrieve_paginated_data                                    *)
(***************************************************************************)
\* the chain of pages the source links from page 1 through `next`
RECURSIVE ChainFrom(_, _)
ChainFrom(s, p) ==
    IF s[p].next = None THEN <<p>> ELSE <<p>> \o ChainFrom(s, s[p].next)

Chain == ChainFrom(source, 1)

ChainIsWellFormed == \A i \in 1..Len(Chain) : source[Chain[i]].kind = "ok"

RECURSIVE ChainResults(_, _)
ChainResults(s, ch) ==
    IF ch = <<>> THEN <<>> ELSE s[Head(ch)].results \o ChainResults(s, Tail(ch))

\* C1: against a chain of well-formed pages p1..pn the pages are requested
\* once each, in chain order, and the call returns exactly
\* results(p1) ++ ... ++ results(pn).
C1_ReturnsChainConcatenation ==
    ChainIsWellFormed =>
        /\ Len(requested) <= Len(Chain)
        /\ requested = SubSeq(Chain, 1, Len(requested))
        /\ pstate # "raised"
        /\ pstate = "returned" =>
            /\ requested = Chain
            /\ returned = <<ChainResults(source, Chain)>>

C1_Witness ==
    /\ ChainIsWellFormed
    /\ pstate = "returned"
    /\ Len(requested) = 3
    /\ \A i \in 1..3 : source[requested[i]].results # <<>>

FailedKinds == {"http_error", "not_json", "no_next", "bad_next"}

MalformedKinds == FailedKinds \cup {"no_results"}

RequestedKind(ks) == \E i \in 1..Len(requested) : source[requested[i]].kind \in ks

\* C6 as claimed: a non-success status or any malformed body, a body lacking
\* `results` included, makes the whole fetch fail and return nothing.
C6_AnyMalformedPageFailsFetch ==
    (pstate # "calling" /\ RequestedKind(MalformedKinds)) =>
        (pstate = "raised" /\ returned = <<>>)

\* C6 amended: a non-success status, a body that is not JSON, a body lacking
\* `next` or a `next` URL lacking `page` makes the whole fetch fail and
\* return nothing, whatever was fetched before; a body lacking `results` is
\* not a failure, it counts as a page without records.
C6_FailedPageFailsFetch ==
    /\ (pstate # "calling" /\ RequestedKind(FailedKinds)) =>
            (pstate = "raised" /\ returned = <<>>)
    /\ (pstate # "calling" /\ ~RequestedKind(FailedKinds)) =>
            (pstate = "returned" /\ Len(returned) = 1)

C6_Witness ==
    /\ pstate = "raised"
    /\ returned = <<>>
    /\ Len(requested) >= 2
    /\ source[requested[1]].kind = "ok"
    /\ source[requested[1]].results # <<>>

(***************************************************************************)
(* Time.  An instant is a number of seconds since the epoch.  A timestamp  *)
(* string such as 2023-06-01T00:30:00+01:00 is [wall, off]: the wall-clock *)
(* reading, as seconds since the epoch, and the UTC offset written after   *)
(* it.  A time of day is a number of seconds since local midnight.  A zone *)
(* is a zone name with a constant UTC offset.                              *)
(***************************************************************************)
DaySecs == 24 * 60 * 60

HM(h, m) == (h * 60 + m) * 60

HMS(h, m, sec) == HM(h, m) + sec

Zones == {"UTC", "Etc/GMT-1", "Etc/GMT+5"}

ZoneOffset(zone) ==
    CASE zone = "UTC" -> 0
      [] zone = "Etc/GMT-1" -> 60 * 60
      [] zone = "Etc/GMT+5" -> 0 - 5 * 60 * 60

\* maya.parse(string): the instant the string denotes
Parse(ts) == ts.wall - ts.off

\* MayaDT.iso8601(): the instant written in UTC, 2023-05-31T23:30:00Z
Iso8601(inst) == [wall |-> inst, off |-> 0]

\* variant: the date taken without to_timezone, in UTC
LocalDateUTC(inst, zone) == inst \div DaySecs

\* measurement_at.datetime(to_timezone=low_zone).strftime('%Y-%m-%d'),
\* as the number of the local day
LocalDate(inst, zone) == (inst + ZoneOffset(zone)) \div DaySecs

\* maya.when('<date>T<time of day>', timezone=zone)
When(date, tod, zone) == date * DaySecs + tod - ZoneOffset(zone)

\* maya.MayaInterval(start, end)
MayaInterval(start, end) == [start |-> start, end |-> end]

\* variant: membership with the end included
ContainsClosed(iv, dt) == iv.start <= dt /\ dt <= iv.end

\* `dt in interval`: start <= dt < end
Contains(iv, dt) == iv.start <= dt /\ dt < iv.end

(***************************************************************************)
(* store_series: enrichment of one consumption record                      *)
(***************************************************************************)
active_rate_field(sr, rd, m) ==
    IF sr = "gas" THEN "unit_rate"
    ELSE IF rd.unit_rate_low_zone = "" THEN "unit_rate_high"
    ELSE
        LET low_zone == rd.unit_rate_low_zone
            measurement_at == Parse(m.interval_start)
            date == LocalDate(measurement_at, low_zone)
            low_start == When(date, rd.unit_rate_low_start, low_zone)
            low_end == When(date, rd.unit_rate_low_end, low_zone)
            low_end_d1 == When(date, HMS(23, 59, 59), low_zone)
            low_start_d2 == When(date, HMS(0, 0, 0), low_zone)
            low_period_a ==
                IF low_start > low_end
                THEN MayaInterval(low_start, low_end_d1)
                ELSE MayaInterval(low_start, low_end)
            low_period_b ==
                IF low_start > low_end
                THEN MayaInterval(low_start_d2, low_end)
                ELSE MayaInterval(low_start, low_end)
        IN  IF Contains(low_period_a, measurement_at)
                \/ Contains(low_period_b, measurement_at)
            THEN "unit_rate_low"
            ELSE "unit_rate_high"

\* the agile_rates dict: the value of the last entry of the price series whose
\* valid_to is the key, or the default
RECURSIVE AgileRatesGet(_, _, _)
AgileRatesGet(entries, key, default) ==
    IF entries = <<>> THEN default
    ELSE LET last == entries[Len(entries)] IN
        IF last.valid_to = key THEN last.value_inc_vat
        ELSE AgileRatesGet(SubSeq(entries, 1, Len(entries) - 1), key, default)

\* rate_data[rate]
StaticRate(rd, rate) ==
    CASE rate = "unit_rate" -> rd.unit_rate
      [] rate = "unit_rate_high" -> rd.unit_rate_high
      [] rate = "unit_rate_low" -> rd.unit_rate_low

\* variant: agile_rates.get without the static rate as default
fields_for_measurement_NoFallback(sr, rd, m) ==
    LET consumption ==
            IF rd.conversion_factor # 0
            THEN m.consumption * rd.conversion_factor
            ELSE m.consumption
        agile_unit_rate ==
            AgileRatesGet(rd.agile_unit_rates, Iso8601(Parse(m.interval_end)), 0)
    IN  <<[field |-> "consumption", value |-> consumption]>>
        \o  IF rd.agile_unit_rates # <<>>
            THEN <<[field |-> "agile_rate", value |-> agile_unit_rate],
                   [field |-> "agile_cost", value |-> agile_unit_rate * consumption]>>
            ELSE <<>>

\* a fields dict is the sequence of its items, in insertion order
fields_for_measurement(sr, rd, m) ==
    LET consumption ==
            IF rd.conversion_factor # 0
            THEN m.consumption * rd.conversion_factor
            ELSE m.consumption
        rate == active_rate_field(sr, rd, m)
        agile_unit_rate ==
            AgileRatesGet(rd.agile_unit_rates, Iso8601(Parse(m.interval_end)),
                          StaticRate(rd, rate))
    IN  <<[field |-> "consumption", value |-> consumption]>>
        \o  IF rd.agile_unit_rates # <<>>
            THEN <<[field |-> "agile_rate", value |-> agile_unit_rate],
                   [field |-> "agile_cost", value |-> agile_unit_rate * consumption]>>
            ELSE <<>>

\* period.datetime().strftime('%H:%M'): the UTC minute of the day
tags_for_measurement(sr, rd, m) ==
    [active_rate |-> active_rate_field(sr, rd, m),
     time_of_day |-> (Parse(m.interval_end) % DaySecs) \div 60]

\* one element of the `measurements` list
Enriched(sr, rd, m) ==
    [measurement |-> sr,
     tags |-> tags_for_measurement(sr, rd, m),
     time |-> m.interval_end,
     fields |-> fields_for_measurement(sr, rd, m)]

\* the `measurements` list comprehension
Measurements(sr, rd, ms) == [i \in 1..Len(ms) |-> Enriched(sr, rd, ms[i])]

\* store_series up to its first write: every record is enriched
StoreEnrich ==
    /\ enrichStep = "enrich"
    /\ measurements' = Measurements(series, rate_data, metrics)
    /\ enrichStep' = "write"
    /\ widx' = 1
    /\ fidx' = 1
    /\ UNCHANGED <<series, rate_data, metrics, writes>>

\* Point("electricity").field(field, value).time(measurement['time'])
Point(m, f) ==
    [name |-> "electricity", tags |-> <<>>,
     field |-> f.field, value |-> f.value, time |-> m.time]

\* one iteration of the inner loop: write_api.write(bucket, record=point)
WritePoint ==
    /\ enrichStep = "write"
    /\ widx <= Len(measurements)
    /\ LET m == measurements[widx] IN
        /\ writes' = Append(writes, [point |-> Point(m, m.fields[fidx]), of |-> m])
        /\ IF fidx < Len(m.fields)
           THEN fidx' = fidx + 1 /\ widx' = widx
           ELSE fidx' = 1 /\ widx' = widx + 1
    /\ UNCHANGED <<series, rate_data, metrics, measurements, enrichStep>>

\* write_api.write raises: store_series ends
WriteRaises ==
    /\ enrichStep = "write"
    /\ widx <= Len(measurements)
    /\ enrichStep' = "raised"
    /\ UNCHANGED <<series, rate_data, metrics, measurements, widx, fidx, writes>>

\* the loop is over: store_series returns
StoreReturns ==
    /\ enrichStep = "write"
    /\ widx > Len(measurements)
    /\ enrichStep' = "done"
    /\ UNCHANGED <<series, rate_data, metrics, measurements, widx, fidx, writes>>

(***************************************************************************)
(* Inputs of the enrichment.  InitBands draws schedules and instants       *)
(* around the band boundaries; InitPrices draws dynamic price series,      *)
(* consumptions and conversion factors.                                    *)
(***************************************************************************)
RateData(zone, low_start, low_end, factor, agile) ==
    [unit_rate_high |-> 30, unit_rate_low |-> 10, unit_rate |-> 4,
     unit_rate_low_start |-> low_start, unit_rate_low_end |-> low_end,
     unit_rate_low_zone |-> zone,
     conversion_factor |-> factor,
     agile_unit_rates |-> agile]

\* the timestamp string of the instant whose time of day in `zone` on local
\* day `d` is `tod`, written with UTC offset `off`
Stamp(d, tod, zone, off) ==
    LET inst == d * DaySecs + tod - (IF zone = "" THEN 0 ELSE ZoneOffset(zone))
    IN  [wall |-> inst + off, off |-> off]

HalfHour == 30 * 60

\* a consumption record: interval_end is half an hour after interval_start
Consumption(d, tod, zone, off, c) ==
    [interval_start |-> Stamp(d, tod, zone, off),
     interval_end |-> Stamp(d, tod + HalfHour, zone, off),
     consumption |-> c]

LowTimes == {HM(0, 0), HM(0, 30), HM(5, 30), HM(23, 30), HM(23, 59)}

Near(x) == {x - 1, x, x + 1} \cap (0..(DaySecs - 1))

TimesOfDay == UNION {Near(x) : x \in LowTimes \cup {HM(12, 0), HMS(23, 59, 59)}}

StringOffsets == {0, 60 * 60}

Seqs(S, n) == UNION {[1..k -> S] : k \in 0..n}

InitBands ==
    /\ series \in {"electricity", "gas"}
    /\ \E zone \in Zones \cup {""}, low_start \in LowTimes, low_end \in LowTimes,
          d \in 1..MaxDays, tod \in TimesOfDay, off \in StringOffsets :
        /\ rate_data = RateData(zone, low_start, low_end, 0, <<>>)
        /\ metrics = <<Consumption(d, tod, zone, off, 5)>>
    /\ measurements = <<>>
    /\ enrichStep = "enrich"
    /\ widx = 0
    /\ fidx = 0
    /\ writes = <<>>

AgileEntries(m) ==
    LET end == Parse(m.interval_end) IN
    [valid_to : {Iso8601(end),
                 [wall |-> end + 60 * 60, off |-> 60 * 60],
                 Iso8601(end + HalfHour)},
     value_inc_vat : {7, 9}]

InitPrices ==
    /\ series \in {"electricity", "gas"}
    /\ \E tod \in {HM(0, 0), HM(12, 0)}, off \in StringOffsets, c \in {2, 5} :
        metrics = <<Consumption(1, tod, "Etc/GMT-1", off, c)>>
    /\ \E factor \in {0, 3}, agile \in Seqs(AgileEntries(metrics[1]), MaxAgile) :
        rate_data = RateData("Etc/GMT-1", HM(23, 30), HM(5, 30), factor, agile)
    /\ measurements = <<>>
    /\ enrichStep = "enrich"
    /\ widx = 0
    /\ fidx = 0
    /\ writes = <<>>

PagIdle ==
    /\ source = <<>>
    /\ page = None
    /\ frames = <<>>
    /\ requested = <<>>
    /\ returned = <<>>
    /\ pstate = "idle"

InitEnrich == PagIdle /\ AgileIdle /\ CmdIdle /\ (InitBands \/ InitPrices)

NextEnrich ==
    \/ StoreEnrich /\ UNCHANGED <<pagVars, agileVars, cmdVars>>
    \/ WritePoint /\ UNCHANGED <<pagVars, agileVars, cmdVars>>
    \/ WriteRaises /\ UNCHANGED <<pagVars, agileVars, cmdVars>>
    \/ StoreReturns /\ UNCHANGED <<pagVars, agileVars, cmdVars>>

SpecEnrich == InitEnrich /\ [][NextEnrich]_vars

(***************************************************************************)
(* Claims about active_rate_field                                          *)
(***************************************************************************)
\* the record enriched and its enrichment
measurement == metrics[1]

enriched == measurements

Resolved == enriched # <<>> /\ series = "electricity"

Banded == Resolved /\ rate_data.unit_rate_low_zone # ""

ActiveRate == enriched[1].tags.active_rate

\* the local time of day, in the schedule's zone, of interval_start
LocalTimeOfDay ==
    (Parse(measurement.interval_start) + ZoneOffset(rate_data.unit_rate_low_zone))
        % DaySecs

LowStart == rate_data.unit_rate_low_start

LowEnd == rate_data.unit_rate_low_end

InBand == ActiveRate \in {"unit_rate_low", "unit_rate_high"}

\* C2 as claimed: for a midnight-crossing schedule (low_start > low_end) the
\* low band is returned iff the local time of day is >= low_start or
\* <= low_end, else the high band.
C2_CrossingBandIsClosed ==
    (Banded /\ LowStart > LowEnd) =>
        /\ InBand
        /\ ActiveRate = "unit_rate_low" <=>
            (LocalTimeOfDay >= LowStart \/ LocalTimeOfDay <= LowEnd)

\* C2, the part of it that fails by the end of day alone: every instant from
\* low_start to midnight is in the low band.
C2_NoInstantBeforeMidnightLeftOut ==
    (Banded /\ LowStart > LowEnd /\ LocalTimeOfDay >= LowStart) =>
        ActiveRate = "unit_rate_low"

C9_NoLowBandIsHigh ==
    (Resolved /\ (rate_data.unit_rate_low_zone = "" \/ LowStart = LowEnd)) =>
        ActiveRate = "unit_rate_high"

C9_Witness ==
    /\ Banded
    /\ LowStart = LowEnd
    /\ LocalTimeOfDay = LowStart
    /\ ActiveRate = "unit_rate_high"

(***************************************************************************)
(* Claims about fields_for_measurement                                     *)
(***************************************************************************)
AgileData == rate_data.agile_unit_rates

\* the entries whose valid_to is the ISO-normalised interval_end
Matching ==
    {i \in 1..Len(AgileData) :
        AgileData[i].valid_to = Iso8601(Parse(measurement.interval_end))}

LastMatching == CHOOSE i \in Matching : \A j \in Matching : j <= i

HasField(name) ==
    \E i \in 1..Len(enriched[1].fields) : enriched[1].fields[i].field = name

FieldValue(name) ==
    LET i == CHOOSE j \in 1..Len(enriched[1].fields) :
                enriched[1].fields[j].field = name
    IN  enriched[1].fields[i].value

ConvertedConsumption ==
    IF rate_data.conversion_factor # 0
    THEN measurement.consumption * rate_data.conversion_factor
    ELSE measurement.consumption

AgileFieldsAreRight ==
    /\ HasField("agile_rate")
    /\ HasField("agile_cost")
    /\ Matching = {} =>
        FieldValue("agile_rate") = StaticRate(rate_data, ActiveRate)
    /\ Matching # {} =>
        FieldValue("agile_rate") = AgileData[LastMatching].value_inc_vat
    /\ FieldValue("agile_cost") = FieldValue("agile_rate") * ConvertedConsumption

\* C5 as claimed: with the price series cmd hands to the electricity series,
\* whatever its length, a record without a matching entry gets the static
\* rate of its band as agile_rate, a record with one gets the entry's rate,
\* and agile_cost is agile_rate times the converted consumption.
C5_SuppliedSeriesGivesAgileFields ==
    (enriched # <<>> /\ series = "electricity") => AgileFieldsAreRight

\* C5 amended: the same, for a price series with at least one entry.
C5_NonEmptySeriesGivesAgileFields ==
    (enriched # <<>> /\ AgileData # <<>>) => AgileFieldsAreRight

C5_Witness ==
    /\ enriched # <<>>
    /\ series = "electricity"
    /\ Len(AgileData) = 2
    /\ Matching = {}
    /\ rate_data.conversion_factor # 0
    /\ ActiveRate = "unit_rate_low"
    /\ FieldValue("agile_rate") = rate_data.unit_rate_low

(***************************************************************************)
(* agileexportonly.store_agilerates                                        *)
(***************************************************************************)
BatchCeiling == 48

\* Point("electricity").field("agile_rate", value_inc_vat).time(valid_from)
AgilePoint(agile_rate) ==
    [name |-> "electricity", field |-> "agile_rate",
     value |-> agile_rate.value_inc_vat, time |-> agile_rate.valid_from]

\* variant: the batch not emptied after a flush
PointsKept(written) == written

\* `points=[]` after a flush
PointsReset(written) == <<>>

\* a loop iteration that appends and leaves the batch pending
AppendPoint ==
    /\ apc = "loop"
    /\ idx <= Len(agile_data)
    /\ LET appended == Append(points, AgilePoint(agile_data[idx])) IN
        /\ ~(Len(appended) > BatchCeiling)
        /\ points' = appended
    /\ idx' = idx + 1
    /\ UNCHANGED <<agile_data, calls, apc>>

\* a loop iteration that appends and flushes: `if (len(points) > 48)`
AppendAndFlush ==
    /\ apc = "loop"
    /\ idx <= Len(agile_data)
    /\ LET appended == Append(points, AgilePoint(agile_data[idx])) IN
        /\ Len(appended) > BatchCeiling
        /\ calls' = Append(calls, appended)
        /\ points' = PointsReset(appended)
    /\ idx' = idx + 1
    /\ UNCHANGED <<agile_data, apc>>

\* the write after the loop
FinalWrite ==
    /\ apc = "loop"
    /\ idx > Len(agile_data)
    /\ calls' = Append(calls, points)
    /\ apc' = "done"
    /\ UNCHANGED <<agile_data, idx, points>>

\* write_api.write raises, in the loop or after it: store_agilerates ends
AgileWriteRaises ==
    /\ apc = "loop"
    /\ \/ idx > Len(agile_data)
       \/ /\ idx <= Len(agile_data)
          /\ Len(points) + 1 > BatchCeiling
    /\ apc' = "raised"
    /\ UNCHANGED <<agile_data, idx, points, calls>>

\* n half-hourly rates, oldest first or, as the rates API lists them, newest first
Rates(n, newest_first) ==
    [i \in 1..n |->
        LET k == IF newest_first THEN n + 1 - i ELSE i IN
        [valid_from |-> k * HalfHour, valid_to |-> (k + 1) * HalfHour,
         value_inc_vat |-> 5 + ((k * k) % 7)]]

InitAgile ==
    /\ PagIdle
    /\ EnrichIdle
    /\ CmdIdle
    /\ \E n \in 0..MaxRates, newest_first \in BOOLEAN :
        agile_data = Rates(n, newest_first)
    /\ idx = 1
    /\ points = <<>>
    /\ calls = <<>>
    /\ apc = "loop"

NextAgile ==
    \/ AppendPoint /\ UNCHANGED <<pagVars, enrichVars, cmdVars>>
    \/ AppendAndFlush /\ UNCHANGED <<pagVars, enrichVars, cmdVars>>
    \/ FinalWrite /\ UNCHANGED <<pagVars, enrichVars, cmdVars>>
    \/ AgileWriteRaises /\ UNCHANGED <<pagVars, enrichVars, cmdVars>>

SpecAgile == InitAgile /\ [][NextAgile]_vars

(***************************************************************************)
(* Claims about store_agilerates                                           *)
(***************************************************************************)
RECURSIVE Flatten(_)
Flatten(batches) ==
    IF batches = <<>> THEN <<>> ELSE Head(batches) \o Flatten(Tail(batches))

\* C4 as claimed: no write call carries more than 48 points, and 49 rates
\* make exactly two write calls, of 48 points and of 1 point.
C4_NoWriteAboveCeiling ==
    /\ \A i \in 1..Len(calls) : Len(calls[i]) <= 48
    /\ (apc = "done" /\ Len(agile_data) = 49) =>
        (Len(calls) = 2 /\ Len(calls[1]) = 48 /\ Len(calls[2]) = 1)

\* C10: the batches written, concatenated, are the rates mapped to points, in
\* input order: all of them once store_agilerates is done, and together with
\* the pending batch the rates consumed so far while it loops.
C10_BatchesAreTheInput ==
    /\ apc = "loop" =>
        Flatten(calls) \o points = [i \in 1..(idx - 1) |-> AgilePoint(agile_data[i])]
    /\ apc = "done" =>
        Flatten(calls) = [i \in 1..Len(agile_data) |-> AgilePoint(agile_data[i])]

C10_Witness ==
    /\ apc = "done"
    /\ Len(calls) = 3
    /\ calls[3] # <<>>
    /\ Len(Flatten(calls)) = Len(agile_data)

(***************************************************************************)
(* octopus_to_influxdb.cmd: one run.  The configuration is one with a      *)
(* banded electricity schedule (low band 23:30 to 05:30) and an SMETS2 gas *)
(* meter.  The sources serve one record per page; the record <<p, i>> of   *)
(* a source is the half-hour slot p.                                       *)
(***************************************************************************)
RunSources == Sources(RunPages, 1)

SlotStart(id) == HM(5, 0) + (id[1] - 1) * HalfHour

ElectricityReading(id) == Consumption(1, SlotStart(id), "Etc/GMT-1", 60 * 60, 2 + id[1])

GasReading(id) == Consumption(1, SlotStart(id), "Etc/GMT-1", 60 * 60, 1)

AgileRate(id) ==
    [valid_to |-> Iso8601(Parse(ElectricityReading(id).interval_end)),
     value_inc_vat |-> 7 + id[1]]

\* rate_data['electricity'] and rate_data['gas']
ElectricityRateData(agile) == RateData("Etc/GMT-1", HM(23, 30), HM(5, 30), 0, agile)

GasRateData == RateData("", 0, 0, 11, <<>>)

\* variant: the electricity series stored before the prices are fetched
NextStepStoreFirst(p, ng) ==
    CASE p = "fetch_e" -> "store_e"
      [] p = "store_e" -> "fetch_agile"
      [] p = "fetch_agile" -> IF ng THEN "end" ELSE "fetch_g"
      [] p = "fetch_g" -> "store_g"
      [] p = "store_g" -> "end"

\* the order of the statements of cmd
NextStep(p, ng) ==
    CASE p = "fetch_e" -> "fetch_agile"
      [] p = "fetch_agile" -> "store_e"
      [] p = "store_e" -> IF ng THEN "end" ELSE "fetch_g"
      [] p = "fetch_g" -> "store_g"
      [] p = "store_g" -> "end"

Running == status = "running"

\* retrieve_paginated_data(api_key, url, from_iso, to_iso) is called
CallFetch ==
    /\ Running
    /\ pc \in {"fetch_e", "fetch_agile", "fetch_g"}
    /\ pstate = "idle"
    /\ source' \in RunSources
    /\ page' = None
    /\ frames' = <<>>
    /\ requested' = <<>>
    /\ returned' = <<>>
    /\ pstate' = "calling"
    /\ UNCHANGED <<enrichVars, cmdVars>>

\* it returns: the records are assigned
FetchReturns ==
    /\ Running
    /\ pstate = "returned"
    /\ LET ids == returned[1] IN
        /\ e_consumption' =
            IF pc = "fetch_e"
            THEN [i \in 1..Len(ids) |-> ElectricityReading(ids[i])]
            ELSE e_consumption
        /\ agile_unit_rates' =
            IF pc = "fetch_agile"
            THEN [i \in 1..Len(ids) |-> AgileRate(ids[i])]
            ELSE agile_unit_rates
        /\ g_consumption' =
            IF pc = "fetch_g"
            THEN [i \in 1..Len(ids) |-> GasReading(ids[i])]
            ELSE g_consumption
    /\ pc' = NextStep(pc, no_gas)
    /\ source' = <<>>
    /\ page' = None
    /\ frames' = <<>>
    /\ requested' = <<>>
    /\ returned' = <<>>
    /\ pstate' = "idle"
    /\ UNCHANGED <<enrichVars, status, no_gas>>

\* store_series(influx, series, metrics, rate_data[series]) is called
CallStore ==
    /\ Running
    /\ pc \in {"store_e", "store_g"}
    /\ enrichStep \in {"idle", "done"}
    /\ series' = IF pc = "store_e" THEN "electricity" ELSE "gas"
    /\ metrics' = IF pc = "store_e" THEN e_consumption ELSE g_consumption
    /\ rate_data' =
        IF pc = "store_e" THEN ElectricityRateData(agile_unit_rates) ELSE GasRateData
    /\ measurements' = <<>>
    /\ enrichStep' = "enrich"
    /\ pc' = IF pc = "store_e" THEN "in_store_e" ELSE "in_store_g"
    /\ UNCHANGED <<pagVars, widx, fidx, writes,
                   status, no_gas, e_consumption, agile_unit_rates, g_consumption>>

\* it returns
StoreReturned ==
    /\ Running
    /\ pc \in {"in_store_e", "in_store_g"}
    /\ enrichStep = "done"
    /\ pc' = NextStep(IF pc = "in_store_e" THEN "store_e" ELSE "store_g", no_gas)
    /\ UNCHANGED <<pagVars, enrichVars,
                   status, no_gas, e_consumption, agile_unit_rates, g_consumption>>

\* an exception of a fetch or of a write leaves cmd
CmdRaises ==
    /\ Running
    /\ pstate = "raised" \/ enrichStep = "raised"
    /\ status' = "aborted"
    /\ UNCHANGED <<pagVars, enrichVars,
                   pc, no_gas, e_consumption, agile_unit_rates, g_consumption>>

\* the last statement is done
CmdEnds ==
    /\ Running
    /\ pc = "end"
    /\ status' = "done"
    /\ UNCHANGED <<pagVars, enrichVars,
                   pc, no_gas, e_consumption, agile_unit_rates, g_consumption>>

Init ==
    /\ PagIdle
    /\ EnrichIdle
    /\ AgileIdle
    /\ pc = "fetch_e"
    /\ status = "running"
    /\ no_gas \in BOOLEAN
    /\ e_consumption = <<>>
    /\ agile_unit_rates = <<>>
    /\ g_consumption = <<>>

Next ==
    \/ CallFetch /\ UNCHANGED agileVars
    \/ RequestRaises /\ Running /\ UNCHANGED <<enrichVars, agileVars, cmdVars>>
    \/ RequestMore /\ Running /\ UNCHANGED <<enrichVars, agileVars, cmdVars>>
    \/ RequestLast /\ Running /\ UNCHANGED <<enrichVars, agileVars, cmdVars>>
    \/ FetchReturns /\ UNCHANGED agileVars
    \/ CallStore /\ UNCHANGED agileVars
    \/ StoreEnrich /\ Running /\ UNCHANGED <<pagVars, agileVars, cmdVars>>
    \/ WritePoint /\ Running /\ UNCHANGED <<pagVars, agileVars, cmdVars>>
    \/ WriteRaises /\ Running /\ UNCHANGED <<pagVars, agileVars, cmdVars>>
    \/ StoreReturns /\ Running /\ UNCHANGED <<pagVars, agileVars, cmdVars>>
    \/ StoreReturned /\ UNCHANGED agileVars
    \/ CmdRaises /\ UNCHANGED agileVars
    \/ CmdEnds /\ UNCHANGED agileVars

Spec == Init /\ [][Next]_vars

(***************************************************************************)
(* Claims about a run of cmd                                               *)
(***************************************************************************)
\* the name and the tags the measurement a write was made of carries
OwnName(w) == w.of.measurement

OwnTags(w) == <<w.of.tags.active_rate, w.of.tags.time_of_day>>

SameCoordinates(v, w) ==
    /\ v.point.name = w.point.name
    /\ v.point.tags = w.point.tags
    /\ v.point.field = w.point.field
    /\ Parse(v.point.time) = Parse(w.point.time)

\* C7, its consequence: a point of one series and a point of the other never
\* have the same name, tags, field and timestamp.
C7_NoCrossSeriesCollision ==
    \A i, j \in 1..Len(writes) :
        OwnName(writes[i]) # OwnName(writes[j]) =>
            ~SameCoordinates(writes[i], writes[j])

\* C7 as claimed: every point written carries the series name and the tags
\* (active_rate, time_of_day) of its measurement, so that a point of one
\* series and a point of the other never have the same name, tags, field
\* and timestamp.
C7_PointsKeepTheirSeries ==
    /\ \A i \in 1..Len(writes) :
        /\ writes[i].point.name = OwnName(writes[i])
        /\ writes[i].point.tags = OwnTags(writes[i])
    /\ \A i, j \in 1..Len(writes) :
        OwnName(writes[i]) # OwnName(writes[j]) =>
            ~SameCoordinates(writes[i], writes[j])

WrittenOf(sr) == \E i \in 1..Len(writes) : OwnName(writes[i]) = sr

Fetching == pstate \in {"calling", "raised"}

\* C8 as claimed: every write of the run comes after all its page fetches and
\* after the enrichment of every record, so no point has been written while
\* a page is still to be fetched or when a fetch has failed.
C8_RunIsStrictlyPhased ==
    /\ Fetching => writes = <<>>
    /\ (series # "" /\ WrittenOf(series)) => Len(measurements) = Len(metrics)

\* C8 amended: the run is phased per series.  No point of a series is written
\* before all page fetches for that series (for electricity the readings and
\* the prices) are complete and every record of the series is enriched; when
\* a fetch fails no point of the series it was for, nor of a later series,
\* has been written.  The electricity points are written before the gas
\* readings are fetched.
C8_SeriesIsStrictlyPhased ==
    /\ (Fetching /\ pc \in {"fetch_e", "fetch_agile"}) => writes = <<>>
    /\ (Fetching /\ pc = "fetch_g") =>
        (~WrittenOf("gas") /\ enrichStep = "done"
            /\ Len(writes) >= Len(e_consumption))
    /\ Fetching => pc \in {"fetch_e", "fetch_agile", "fetch_g"}
    /\ WrittenOf("electricity") => pc \notin {"fetch_e", "fetch_agile", "store_e"}
    /\ (series # "" /\ WrittenOf(series)) =>
        /\ Len(measurements) = Len(metrics)
        /\ metrics = (IF series = "gas" THEN g_consumption ELSE e_consumption)

C8_Witness ==
    /\ status = "aborted"
    /\ pc = "fetch_g"
    /\ pstate = "raised"
    /\ Len(requested) = 2
    /\ WrittenOf("electricity")
    /\ ~WrittenOf("gas")

====
